---- MODULE Spec2Model ----
(***************************************************************************)
(* Model of VulkanTest/main.cpp: HelloTriangleApplication::run() as a      *)
(* sequential state machine (one action per function of initVulkan, one    *)
(* per statement of cleanup), together with the pure selection functions   *)
(* (findQueueFamilies, isDeviceSuitable, pickPhysicalDevice) and the       *)
(* functions that choose the parameters of the swapchain                   *)
(* (chooseSwapSurfaceFormat, chooseSwapPresentMode, chooseSwapExtent and   *)
(* the image count of createSwapChain).                                    *)
(*                                                                         *)
(* The windowing library and the driver are the environment: every         *)
(* fallible call may succeed or fail, chosen with \E in the action that    *)
(* makes the call.  log is the history of the calls that were made.        *)
(***************************************************************************)
EXTENDS Integers, Sequences, FiniteSets, TLC

VARIABLES
    pc,                     \* index into Program of the step run() executes next
    exitStatus,             \* "running", "EXIT_SUCCESS", "EXIT_FAILURE", "crashed", "returned"
    exception,              \* what() of the exception in flight or caught, "none" otherwise
    log,                    \* history: the library/driver calls made so far
    enableValidationLayers, \* the compile-time switch (NDEBUG)
    availableLayers,        \* what vkEnumerateInstanceLayerProperties reports
    glfwInitialized,        \* glfwInit() succeeded
    window,                 \* TRUE: a window handle, FALSE: NULL
    framebufferSize,        \* what glfwGetFramebufferSize reports for the window
    devices,                \* what vkEnumeratePhysicalDevices reports, in order
    physicalDevice,         \* index into devices, VK_NULL_HANDLE when none
    indices,                \* QueueFamilyIndices last returned by findQueueFamilies
    queueCreateInfos,       \* queue family index of each VkDeviceQueueCreateInfo
    createInfo,             \* the VkSwapchainCreateInfoKHR given to vkCreateSwapchainKHR
    swapChainImages,        \* swapChainImages.size()
    imagesValid,            \* vkGetSwapchainImagesKHR filled swapChainImages
    swapChainImageViews,    \* swapChainImageViews.size()
    swapChainFramebuffers,  \* swapChainFramebuffers.size()
    commandBuffers,         \* commandBuffers.size()
    windowShouldClose,      \* the window's close-requested flag
    polls                   \* number of glfwPollEvents() calls made

vars == <<pc, exitStatus, exception, log, enableValidationLayers, availableLayers,
          glfwInitialized, window, framebufferSize, devices, physicalDevice, indices,
          queueCreateInfos, createInfo, swapChainImages, imagesValid, swapChainImageViews, swapChainFramebuffers,
          commandBuffers, windowShouldClose, polls>>

-----------------------------------------------------------------------------
(* Bounds of the model *)

\* most swapchain images the driver hands out
MaxImages == 2
\* most glfwPollEvents() calls that leave the close flag clear
MaxPolls == 2
\* most physical devices enumerated in a whole run
MaxRunDevices == 2
\* most physical devices enumerated when only device selection is run
MaxDevices == 2
\* most queue families of a device when only queue family discovery is run
MaxFamilies == 3
\* most surface formats of a device when only swapchain creation is run
MaxFormats == 2
\* bits of an unsigned integer of the model, which stand for the 32 of uint32_t
\* (the integers TLC computes with end below 2^32)
UintBits == 16

SeqsUpTo(S, n) == UNION {[1..k -> S] : k \in 0..n}

-----------------------------------------------------------------------------
(* Program constants *)

VK_NULL_HANDLE == 0
\* the largest uint32_t; static_cast<uint32_t> and uint32_t arithmetic wrap above it
UINT32_MAX == 2^UintBits - 1
WIDTH == 800
HEIGHT == 600
\* an empty std::optional<uint32_t>
nullopt == -1
\* VkExtensionProperties extensions[32]
MaxPrintedExtensions == 32

validationLayers == {"VK_LAYER_KHRONOS_validation"}
deviceExtensions == {"VK_KHR_swapchain"}

\* the event loop entered before the graphics context is built
run_loopFirst == <<"initWindow", "mainLoop", "initVulkan", "cleanup">>

\* run(): the four phases, in call order
run == <<"initWindow", "initVulkan", "mainLoop", "cleanup">>

\* initVulkan(): its calls, in order
initVulkan ==
    <<"printExtensions", "createInstance", "setupDebugMessenger", "createSurface",
      "pickPhysicalDevice", "createLogicalDevice", "createSwapChain",
      "createImageviews", "createRenderPass", "createGraphicsPipeline",
      "createFramebuffers", "createCommandPool", "createCommandBuffers">>

\* the pipeline layout destroyed before the pipeline that was created from it
cleanup_layoutFirst ==
    <<"vkDestroyCommandPool", "vkDestroyFramebuffer", "vkDestroyPipelineLayout",
      "vkDestroyPipeline", "vkDestroyRenderPass", "vkDestroyImageView",
      "vkDestroySwapchainKHR", "vkDestroyDevice", "DestroyDebugUtilsMessengerEXT",
      "vkDestroySurfaceKHR", "vkDestroyInstance", "glfwDestroyWindow", "glfwTerminate">>

\* the logical device destroyed before the swapchain
cleanup_deviceFirst ==
    <<"vkDestroyCommandPool", "vkDestroyFramebuffer", "vkDestroyPipeline",
      "vkDestroyPipelineLayout", "vkDestroyRenderPass", "vkDestroyImageView",
      "vkDestroyDevice", "vkDestroySwapchainKHR", "DestroyDebugUtilsMessengerEXT",
      "vkDestroySurfaceKHR", "vkDestroyInstance", "glfwDestroyWindow", "glfwTerminate">>

\* cleanup(): its statements, in order
cleanup ==
    <<"vkDestroyCommandPool", "vkDestroyFramebuffer", "vkDestroyPipeline",
      "vkDestroyPipelineLayout", "vkDestroyRenderPass", "vkDestroyImageView",
      "vkDestroySwapchainKHR", "vkDestroyDevice", "DestroyDebugUtilsMessengerEXT",
      "vkDestroySurfaceKHR", "vkDestroyInstance", "glfwDestroyWindow", "glfwTerminate">>

\* the statements a phase of run() executes
Body(f) ==
    CASE f = "initVulkan" -> initVulkan
      [] f = "cleanup" -> cleanup
      [] OTHER -> <<f>>

\* run() unfolded: every step in execution order
Program == Body(run[1]) \o Body(run[2]) \o Body(run[3]) \o Body(run[4])

-----------------------------------------------------------------------------
(* The history of calls *)

Ev(op, res, id) == [op |-> op, res |-> res, id |-> id]

\* events of a loop over handles 1..n
EvSeq(op, res, n) == [i \in 1..n |-> Ev(op, res, i)]

Created(res, id) == \E i \in DOMAIN log : log[i] = Ev("create", res, id)
Destroyed(res, id) == \E i \in DOMAIN log : log[i] = Ev("destroy", res, id)
Alive(res, id) == Created(res, id) /\ ~Destroyed(res, id)

-----------------------------------------------------------------------------
(* Queue family discovery and device selection *)

NoIndices == [graphicsFamily |-> nullopt, presentFamily |-> nullopt, scanned |-> 0]

isComplete(ind) == ind.graphicsFamily # nullopt /\ ind.presentFamily # nullopt

\* the for loop of findQueueFamilies, from iteration i on; scanned counts the
\* families whose surface support was queried
RECURSIVE findQueueFamiliesLoop(_, _, _)
findQueueFamiliesLoop(queueFamilies, i, ind) ==
    IF i >= Len(queueFamilies) THEN ind
    ELSE LET queueFamily == queueFamilies[i + 1]
             g == IF queueFamily.graphics THEN i ELSE ind.graphicsFamily
             p == IF queueFamily.present THEN i ELSE ind.presentFamily
             next == [graphicsFamily |-> g, presentFamily |-> p, scanned |-> i + 1]
         IN IF isComplete(next) THEN next
            ELSE findQueueFamiliesLoop(queueFamilies, i + 1, next)

findQueueFamilies(device) == findQueueFamiliesLoop(device.queueFamilies, 0, NoIndices)

checkDeviceExtensionSupport(device) == (deviceExtensions \ device.extensions) = {}

querySwapChainSupport(device) ==
    [capabilities |-> device.capabilities, formats |-> device.formats,
     presentModes |-> device.presentModes]

\* the swapchain support of the device is not looked at
isDeviceSuitable_noSwapChain(device) ==
    isComplete(findQueueFamilies(device)) /\ checkDeviceExtensionSupport(device)

\* the queue family indices of the device are not looked at
isDeviceSuitable_noQueueCheck(device) ==
    /\ checkDeviceExtensionSupport(device)
    /\ querySwapChainSupport(device).formats # <<>>
    /\ querySwapChainSupport(device).presentModes # <<>>

isDeviceSuitable(device) ==
    LET ind == findQueueFamilies(device)
        extensionsSupported == checkDeviceExtensionSupport(device)
        swapChainAdequate ==
            IF extensionsSupported
            THEN LET swapChainSupport == querySwapChainSupport(device)
                 IN swapChainSupport.formats # <<>> /\ swapChainSupport.presentModes # <<>>
            ELSE FALSE
    IN isComplete(ind) /\ extensionsSupported /\ swapChainAdequate

\* the for loop of pickPhysicalDevice, from devs[i] on
RECURSIVE pickLoop(_, _)
pickLoop(devs, i) ==
    IF i > Len(devs) THEN VK_NULL_HANDLE
    ELSE IF isDeviceSuitable(devs[i]) THEN i
    ELSE pickLoop(devs, i + 1)

-----------------------------------------------------------------------------
(* Parameters of the swapchain *)

ToUint32(n) == n % (UINT32_MAX + 1)
std_min(a, b) == IF b < a THEN b ELSE a
std_max(a, b) == IF a < b THEN b ELSE a

VK_FORMAT_B8G8R8A8_SRGB == "B8G8R8A8_SRGB"
VK_COLOR_SPACE_SRGB_NONLINEAR_KHR == "SRGB_NONLINEAR"

\* the for loop of chooseSwapSurfaceFormat, from availableFormats[i] on, and the
\* return after it (of a non-empty vector)
RECURSIVE chooseSwapSurfaceFormatLoop(_, _)
chooseSwapSurfaceFormatLoop(availableFormats, i) ==
    IF i > Len(availableFormats) THEN availableFormats[1]
    ELSE LET availableFormat == availableFormats[i]
         IN IF /\ availableFormat.format = VK_FORMAT_B8G8R8A8_SRGB
               /\ availableFormat.colorSpace = VK_COLOR_SPACE_SRGB_NONLINEAR_KHR
            THEN availableFormat
            ELSE chooseSwapSurfaceFormatLoop(availableFormats, i + 1)

\* the first format is returned whatever the list holds
chooseSwapSurfaceFormat_first(availableFormats) == availableFormats[1]

chooseSwapSurfaceFormat(availableFormats) ==
    chooseSwapSurfaceFormatLoop(availableFormats, 1)

chooseSwapPresentMode(availablePresentModes) ==
    IF \E i \in DOMAIN availablePresentModes : availablePresentModes[i] = "MAILBOX"
    THEN "MAILBOX"
    ELSE "FIFO"

\* the framebuffer size is not raised to the smallest extent
chooseSwapExtent_noMin(capabilities, size) ==
    IF capabilities.currentExtent.width # UINT32_MAX
    THEN capabilities.currentExtent
    ELSE [width |-> std_min(capabilities.maxImageExtent.width, ToUint32(size.width)),
          height |-> std_min(capabilities.maxImageExtent.height, ToUint32(size.height))]

\* size is what glfwGetFramebufferSize wrote to width and height
chooseSwapExtent(capabilities, size) ==
    IF capabilities.currentExtent.width # UINT32_MAX
    THEN capabilities.currentExtent
    ELSE LET actualExtent == [width |-> ToUint32(size.width),
                              height |-> ToUint32(size.height)]
         IN [width |-> std_max(capabilities.minImageExtent.width,
                               std_min(capabilities.maxImageExtent.width,
                                       actualExtent.width)),
             height |-> std_max(capabilities.minImageExtent.height,
                                std_min(capabilities.maxImageExtent.height,
                                        actualExtent.height))]

\* uint32_t imageCount of createSwapChain, as it is when createInfo is filled
requestedImageCount(capabilities) ==
    LET imageCount == ToUint32(capabilities.minImageCount + 1)
    IN IF capabilities.maxImageCount > 0 /\ imageCount > capabilities.maxImageCount
       THEN capabilities.maxImageCount
       ELSE imageCount

\* VkSwapchainCreateInfoKHR createInfo{}, of which the model keeps six fields
NoCreateInfo ==
    [minImageCount |-> 0, imageFormat |-> "UNDEFINED", imageColorSpace |-> "UNDEFINED",
     imageExtent |-> [width |-> 0, height |-> 0], imageSharingMode |-> "UNDEFINED",
     presentMode |-> "UNDEFINED"]

\* createInfo as createSwapChain fills it for complete queue family indices
swapchainCreateInfo(swapChainSupport, size, ind) ==
    LET surfaceFormat == chooseSwapSurfaceFormat(swapChainSupport.formats)
        presentMode == chooseSwapPresentMode(swapChainSupport.presentModes)
        extent == chooseSwapExtent(swapChainSupport.capabilities, size)
    IN [minImageCount |-> requestedImageCount(swapChainSupport.capabilities),
        imageFormat |-> surfaceFormat.format,
        imageColorSpace |-> surfaceFormat.colorSpace,
        imageExtent |-> extent,
        imageSharingMode |-> IF ind.graphicsFamily # ind.presentFamily
                             THEN "CONCURRENT" ELSE "EXCLUSIVE",
        presentMode |-> presentMode]

-----------------------------------------------------------------------------
(* What the driver may report *)

QueueFamilyKinds == [graphics : BOOLEAN, present : BOOLEAN]
GP == [graphics |-> TRUE, present |-> TRUE]
GOnly == [graphics |-> TRUE, present |-> FALSE]
POnly == [graphics |-> FALSE, present |-> TRUE]
Neither == [graphics |-> FALSE, present |-> FALSE]

ExtensionSets == {{}, {"VK_KHR_swapchain"}}
PresentModeLists == {<<>>, <<"FIFO">>}

\* VkSurfaceFormatKHR values: the preferred pair, the two that differ from it in
\* one member, and one that differs in both
SurfaceFormats ==
    [format : {VK_FORMAT_B8G8R8A8_SRGB, "B8G8R8A8_UNORM"},
     colorSpace : {VK_COLOR_SPACE_SRGB_NONLINEAR_KHR, "EXTENDED_SRGB_LINEAR"}]
UnormFormat == [format |-> "B8G8R8A8_UNORM", colorSpace |-> VK_COLOR_SPACE_SRGB_NONLINEAR_KHR]
FormatLists == {<<>>, <<UnormFormat>>}

Extent(w, h) == [width |-> w, height |-> h]
\* the special value of currentExtent: the swapchain decides the size of the surface
UndefinedExtent == Extent(UINT32_MAX, UINT32_MAX)

\* VkSurfaceCapabilitiesKHR of a window of WIDTH x HEIGHT
WindowCapabilities ==
    [minImageCount |-> 2, maxImageCount |-> 0, currentExtent |-> Extent(WIDTH, HEIGHT),
     minImageExtent |-> Extent(WIDTH, HEIGHT), maxImageExtent |-> Extent(WIDTH, HEIGHT)]

\* (minImageCount, maxImageCount) as a driver may report them: at least one image,
\* no upper limit (0) or one that is not below the lower limit
ImageCountLimits ==
    {c \in [minImageCount : {1, 2, UINT32_MAX}, maxImageCount : {0, 2, 3, UINT32_MAX}] :
        c.maxImageCount = 0 \/ c.maxImageCount >= c.minImageCount}

\* surface capabilities as a driver may report them: the current extent is a size
\* or the special value, the smallest extent is within the largest
CapabilitiesSet ==
    { [minImageCount |-> c.minImageCount, maxImageCount |-> c.maxImageCount,
       currentExtent |-> cur, minImageExtent |-> lo, maxImageExtent |-> hi] :
        c \in ImageCountLimits,
        cur \in {Extent(WIDTH, HEIGHT), UndefinedExtent},
        lo \in {Extent(1, 1), Extent(640, 480)},
        hi \in {Extent(1024, 768), Extent(4096, 4096)} }

\* framebuffer sizes: a minimised window, the window size, wider and higher than
\* any surface
FramebufferSizes == {Extent(0, 0), Extent(WIDTH, HEIGHT), Extent(5000, HEIGHT), Extent(WIDTH, 5000)}

\* a device that pickPhysicalDevice accepts, with the given queue families
DeviceWith(queueFamilies) ==
    [queueFamilies |-> queueFamilies, extensions |-> {"VK_KHR_swapchain"},
     capabilities |-> WindowCapabilities, formats |-> <<UnormFormat>>,
     presentModes |-> <<"FIFO">>]

\* devices of a whole run: one family for both queues, two families, no surface
\* format, no family that presents
RunDeviceSet ==
    { DeviceWith(<<GP>>),
      DeviceWith(<<GOnly, POnly>>),
      [DeviceWith(<<GP>>) EXCEPT !.formats = <<>>],
      DeviceWith(<<GOnly>>) }

\* devices when only device selection is run
PickFamilyLists == {<<>>, <<GOnly>>, <<POnly>>, <<GP>>, <<GOnly, POnly>>, <<Neither, GP>>}
PickDeviceSet ==
    [queueFamilies : PickFamilyLists, extensions : ExtensionSets,
     capabilities : {WindowCapabilities}, formats : FormatLists,
     presentModes : PresentModeLists]

\* devices when only swapchain creation is run: all that pickPhysicalDevice accepts
\* and that differ in what the swapchain is made from
SwapChainDeviceSet ==
    { [queueFamilies |-> q, extensions |-> {"VK_KHR_swapchain"}, capabilities |-> c,
       formats |-> f, presentModes |-> m] :
        q \in {<<GP>>}, c \in CapabilitiesSet,
        f \in SeqsUpTo(SurfaceFormats, MaxFormats) \ {<<>>},
        m \in {<<"FIFO">>, <<"FIFO", "MAILBOX">>} }

-----------------------------------------------------------------------------
(* Control flow of run() and main() *)

glfwVars == <<glfwInitialized, window, framebufferSize>>
driverVars == <<enableValidationLayers, availableLayers, devices>>
deviceVars == <<physicalDevice, indices, queueCreateInfos>>
swapVars == <<createInfo, swapChainImages, imagesValid, swapChainImageViews,
              swapChainFramebuffers, commandBuffers>>
loopVars == <<windowShouldClose, polls>>

\* run() is about to execute step: no exception is in flight, main has not ended
Running(step) ==
    /\ exitStatus = "running"
    /\ exception = "none"
    /\ pc \in DOMAIN Program
    /\ Program[pc] = step

\* the step returns to its caller, which goes on with the next one
Return ==
    /\ pc' = pc + 1
    /\ exception' = exception
    /\ exitStatus' = exitStatus

\* throw std::runtime_error(msg): run() is left, the exception reaches main's try
Throw(msg) ==
    /\ pc' = pc
    /\ exception' = msg
    /\ exitStatus' = exitStatus

\* abnormal termination, one outcome of undefined behaviour
Crash ==
    /\ pc' = pc
    /\ exception' = exception
    /\ exitStatus' = "crashed"

\* a single fallible create call whose result is checked
CreateOrThrow(res, msg) ==
    \E ok \in BOOLEAN :
        IF ok
        THEN log' = Append(log, Ev("create", res, 1)) /\ Return
        ELSE log' = Append(log, Ev("fail", res, 1)) /\ Throw(msg)

\* a loop of n fallible create calls, each checked
CreateEachOrThrow(res, n, msg) ==
    \E k \in 0..n :
        IF k = n
        THEN log' = log \o EvSeq("create", res, n) /\ Return
        ELSE /\ log' = log \o EvSeq("create", res, k) \o <<Ev("fail", res, k + 1)>>
             /\ Throw(msg)

-----------------------------------------------------------------------------
(* initWindow *)

initWindow ==
    /\ Running("initWindow")
    /\ \E initOk \in BOOLEAN, winOk \in BOOLEAN :
        LET made == initOk /\ winOk
        IN /\ glfwInitialized' = initOk
           /\ window' = made
           /\ log' = log \o <<Ev(IF initOk THEN "create" ELSE "fail", "glfw", 1),
                              Ev(IF made THEN "create" ELSE "fail", "window", 1)>>
    /\ Return
    /\ UNCHANGED <<framebufferSize, driverVars, deviceVars, swapVars, loopVars>>

-----------------------------------------------------------------------------
(* initVulkan *)

\* the second enumeration writes extensionCount entries into extensions[32]
printExtensions ==
    /\ Running("printExtensions")
    /\ \E extensionCount \in {0, MaxPrintedExtensions, MaxPrintedExtensions + 1} :
        IF extensionCount <= MaxPrintedExtensions
        THEN Return
        ELSE Return \/ Crash
    /\ UNCHANGED <<log, glfwVars, driverVars, deviceVars, swapVars, loopVars>>

\* the layer check reports success whatever is installed
checkValidationLayerSupport_always == TRUE

checkValidationLayerSupport == \A layerName \in validationLayers : layerName \in availableLayers

createInstance ==
    /\ Running("createInstance")
    /\ IF enableValidationLayers /\ ~checkValidationLayerSupport
       THEN /\ Throw("validation layers requested, but not available!")
            /\ log' = Append(log, Ev("fail", "validationLayers", 1))
       ELSE CreateOrThrow("instance", "failed to create instance!")
    /\ UNCHANGED <<glfwVars, driverVars, deviceVars, swapVars, loopVars>>

\* vkGetInstanceProcAddr finds the debug-utils entry points of a live instance
\* that was created with the debug-utils extension
DebugUtilsProcAddr == enableValidationLayers /\ Alive("instance", 1)

setupDebugMessenger ==
    /\ Running("setupDebugMessenger")
    /\ IF ~enableValidationLayers
       THEN Return /\ log' = log
       ELSE IF ~DebugUtilsProcAddr
       THEN /\ log' = Append(log, Ev("fail", "debugMessenger", 1))
            /\ Throw("failed to set up debug messenger!")
       ELSE CreateOrThrow("debugMessenger", "failed to set up debug messenger!")
    /\ UNCHANGED <<glfwVars, driverVars, deviceVars, swapVars, loopVars>>

\* glfwCreateWindowSurface on a NULL window is undefined: the library reports an
\* error or the process dies
createSurface ==
    /\ Running("createSurface")
    /\ IF window
       THEN CreateOrThrow("surface", "failed to create window surface!")
       ELSE \/ /\ log' = Append(log, Ev("fail", "surface", 1))
               /\ Throw("failed to create window surface!")
            \/ /\ log' = log
               /\ Crash
    /\ UNCHANGED <<glfwVars, driverVars, deviceVars, swapVars, loopVars>>

\* the results of both vkEnumeratePhysicalDevices calls are ignored: when the
\* second one fails the vector holds null handles, and using one is undefined
pickPhysicalDevice ==
    /\ Running("pickPhysicalDevice")
    /\ LET deviceCount == Len(devices)
       IN IF deviceCount = 0
          THEN /\ physicalDevice' = physicalDevice
               /\ log' = log
               /\ Throw("failed to find GPUs with Vulkan support!")
          ELSE \E filled \in BOOLEAN :
               IF ~filled
               THEN /\ physicalDevice' = physicalDevice
                    /\ log' = Append(log, Ev("fail", "physicalDevices", 1))
                    /\ Crash
               ELSE LET picked == pickLoop(devices, 1)
                    IN /\ physicalDevice' = picked
                       /\ log' = log
                       /\ IF picked = VK_NULL_HANDLE
                          THEN Throw("failed to find a suitable GPU!")
                          ELSE Return
    /\ UNCHANGED <<glfwVars, driverVars, indices, queueCreateInfos, swapVars, loopVars>>

\* std::optional::value() on an empty optional throws bad_optional_access
createLogicalDevice ==
    /\ Running("createLogicalDevice")
    /\ IF physicalDevice = VK_NULL_HANDLE
       THEN Crash /\ UNCHANGED <<log, indices, queueCreateInfos>>
       ELSE LET ind == findQueueFamilies(devices[physicalDevice])
            IN /\ indices' = ind
               /\ IF ~isComplete(ind)
                  THEN /\ Throw("bad optional access")
                       /\ UNCHANGED <<log, queueCreateInfos>>
                  ELSE /\ queueCreateInfos' = <<ind.graphicsFamily, ind.presentFamily>>
                       /\ CreateOrThrow("device", "failed to create logical device!")
    /\ UNCHANGED <<glfwVars, driverVars, physicalDevice, swapVars, loopVars>>

\* availableFormats[0] of an empty list is undefined; vkGetSwapchainImagesKHR is
\* not checked, on failure swapChainImages holds no valid handle
createSwapChain ==
    /\ Running("createSwapChain")
    /\ IF physicalDevice = VK_NULL_HANDLE
       THEN Crash /\ UNCHANGED <<log, indices, createInfo, swapChainImages, imagesValid>>
       ELSE LET swapChainSupport == querySwapChainSupport(devices[physicalDevice])
                ind == findQueueFamilies(devices[physicalDevice])
            IN IF swapChainSupport.formats = <<>>
               THEN Crash /\ UNCHANGED <<log, indices, createInfo, swapChainImages,
                                         imagesValid>>
               ELSE /\ indices' = ind
                    /\ IF ~isComplete(ind)
                       THEN /\ Throw("bad optional access")
                            /\ UNCHANGED <<log, createInfo, swapChainImages, imagesValid>>
                       ELSE /\ createInfo' = swapchainCreateInfo(swapChainSupport,
                                                                  framebufferSize, ind)
                            /\ \E ok \in BOOLEAN :
                                IF ~ok
                                THEN /\ log' = Append(log, Ev("fail", "swapchain", 1))
                                     /\ Throw("failed to create swap chain!")
                                     /\ UNCHANGED <<swapChainImages, imagesValid>>
                                ELSE \E imageCount \in 1..MaxImages, got \in BOOLEAN :
                                     /\ swapChainImages' = imageCount
                                     /\ imagesValid' = got
                                     /\ log' = log \o
                                            <<Ev("create", "swapchain", 1),
                                              Ev(IF got THEN "get" ELSE "fail",
                                                 "swapchainImages", 1)>>
                                     /\ Return
    /\ UNCHANGED <<glfwVars, driverVars, physicalDevice, queueCreateInfos,
                   swapChainImageViews, swapChainFramebuffers, commandBuffers, loopVars>>

\* a view of an image handle that was never written is undefined: the driver
\* reports an error or the process dies
createImageviews ==
    /\ Running("createImageviews")
    /\ swapChainImageViews' = swapChainImages
    /\ IF imagesValid \/ swapChainImages = 0
       THEN CreateEachOrThrow("imageView", swapChainImages, "failed to create image views!")
       ELSE \/ /\ log' = Append(log, Ev("fail", "imageView", 1))
               /\ Throw("failed to create image views!")
            \/ /\ log' = log
               /\ Crash
    /\ UNCHANGED <<glfwVars, driverVars, deviceVars, createInfo, swapChainImages,
                   imagesValid, swapChainFramebuffers, commandBuffers, loopVars>>

createRenderPass ==
    /\ Running("createRenderPass")
    /\ CreateOrThrow("renderPass", "failed to create render pass!")
    /\ UNCHANGED <<glfwVars, driverVars, deviceVars, swapVars, loopVars>>

\* each shader module is created as soon as its file is read
pipelineCalls_moduleFirst ==
    << [ok |-> Ev("read", "shaderFile", 1), msg |-> "failed to open file!"],
       [ok |-> Ev("create", "shaderModule", 1), msg |-> "failed to create shader module!"],
       [ok |-> Ev("read", "shaderFile", 2), msg |-> "failed to open file!"],
       [ok |-> Ev("create", "shaderModule", 2), msg |-> "failed to create shader module!"],
       [ok |-> Ev("create", "pipelineLayout", 1), msg |-> "failed to create pipeline layout!"],
       [ok |-> Ev("create", "pipeline", 1), msg |-> "failed to create graphics pipeline!"] >>

\* the fallible calls of createGraphicsPipeline in order, with what each throws
pipelineCalls ==
    << [ok |-> Ev("read", "shaderFile", 1), msg |-> "failed to open file!"],
       [ok |-> Ev("read", "shaderFile", 2), msg |-> "failed to open file!"],
       [ok |-> Ev("create", "shaderModule", 1), msg |-> "failed to create shader module!"],
       [ok |-> Ev("create", "shaderModule", 2), msg |-> "failed to create shader module!"],
       [ok |-> Ev("create", "pipelineLayout", 1), msg |-> "failed to create pipeline layout!"],
       [ok |-> Ev("create", "pipeline", 1), msg |-> "failed to create graphics pipeline!"] >>

\* the vertex shader module is never destroyed
pipelineEpilogue_leak == <<Ev("destroy", "shaderModule", 2)>>

\* what createGraphicsPipeline does once the pipeline exists
pipelineEpilogue == <<Ev("destroy", "shaderModule", 2), Ev("destroy", "shaderModule", 1)>>

createGraphicsPipeline ==
    /\ Running("createGraphicsPipeline")
    /\ \E k \in 0..Len(pipelineCalls) :
        LET done == [i \in 1..k |-> pipelineCalls[i].ok]
        IN IF k = Len(pipelineCalls)
           THEN log' = log \o done \o pipelineEpilogue /\ Return
           ELSE LET failed == pipelineCalls[k + 1]
                IN /\ log' = log \o done \o <<Ev("fail", failed.ok.res, failed.ok.id)>>
                   /\ Throw(failed.msg)
    /\ UNCHANGED <<glfwVars, driverVars, deviceVars, swapVars, loopVars>>

createFramebuffers ==
    /\ Running("createFramebuffers")
    /\ swapChainFramebuffers' = swapChainImageViews
    /\ CreateEachOrThrow("framebuffer", swapChainImageViews, "failed to create framebuffer!")
    /\ UNCHANGED <<glfwVars, driverVars, deviceVars, createInfo, swapChainImages,
                   imagesValid, swapChainImageViews, commandBuffers, loopVars>>

createCommandPool ==
    /\ Running("createCommandPool")
    /\ IF physicalDevice = VK_NULL_HANDLE
       THEN Crash /\ UNCHANGED <<log, indices>>
       ELSE LET ind == findQueueFamilies(devices[physicalDevice])
            IN /\ indices' = ind
               /\ IF ind.graphicsFamily = nullopt
                  THEN Throw("bad optional access") /\ log' = log
                  ELSE CreateOrThrow("commandPool", "failed to create command pool!")
    /\ UNCHANGED <<glfwVars, driverVars, physicalDevice, queueCreateInfos, swapVars, loopVars>>

\* allocation of all buffers at once, then the recording loop
createCommandBuffers ==
    /\ Running("createCommandBuffers")
    /\ commandBuffers' = swapChainFramebuffers
    /\ LET n == swapChainFramebuffers
       IN \/ /\ log' = Append(log, Ev("fail", "commandBuffer", 1))
             /\ Throw("failed to allocate command buffer!")
          \/ \E k \in 0..n, call \in {"begin", "end"} :
                LET allocated == EvSeq("create", "commandBuffer", n)
                    recorded == EvSeq("record", "commandBuffer", k)
                IN IF k = n
                   THEN log' = log \o allocated \o recorded /\ Return
                   ELSE /\ log' = log \o allocated \o recorded
                                    \o <<Ev("fail", call, k + 1)>>
                        /\ Throw(IF call = "begin"
                                 THEN "failed to begin recording command buffer!"
                                 ELSE "failed to record command buffer!")
    /\ UNCHANGED <<glfwVars, driverVars, deviceVars, createInfo, swapChainImages,
                   imagesValid, swapChainImageViews, swapChainFramebuffers, loopVars>>

-----------------------------------------------------------------------------
(* mainLoop: one evaluation of the loop condition and, when it holds, one body *)

\* the body runs once and the loop is left, whatever the close flag says
mainLoop_once ==
    /\ Running("mainLoop")
    /\ IF ~window
       THEN Crash /\ UNCHANGED <<log, loopVars>>
       ELSE \E close \in BOOLEAN :
            /\ windowShouldClose' = close
            /\ polls' = polls + 1
            /\ log' = Append(log, Ev("poll", "window", 1))
            /\ Return
    /\ UNCHANGED <<glfwVars, driverVars, deviceVars, swapVars>>

mainLoop ==
    /\ Running("mainLoop")
    /\ IF ~window
       THEN Crash /\ UNCHANGED <<log, loopVars>>
       ELSE IF windowShouldClose
       THEN /\ log' = Append(log, Ev("shouldClose", "window", 1))
            /\ Return
            /\ UNCHANGED loopVars
       ELSE \E close \in BOOLEAN :
            /\ close \/ polls < MaxPolls
            /\ windowShouldClose' = close
            /\ polls' = polls + 1
            /\ log' = Append(log, Ev("poll", "window", 1))
            /\ UNCHANGED <<pc, exception, exitStatus>>
    /\ UNCHANGED <<glfwVars, driverVars, deviceVars, swapVars>>

-----------------------------------------------------------------------------
(* cleanup: one action per statement *)

\* a destroy call on the handles 1..n of res, after which cleanup goes on
DestroyEach(res, n) ==
    /\ log' = log \o EvSeq("destroy", res, n)
    /\ Return
    /\ UNCHANGED <<glfwVars, driverVars, deviceVars, swapVars, loopVars>>

\* destroying the pool frees the command buffers allocated from it
vkDestroyCommandPool ==
    /\ Running("vkDestroyCommandPool")
    /\ log' = log \o <<Ev("destroy", "commandPool", 1)>>
                  \o EvSeq("destroy", "commandBuffer", commandBuffers)
    /\ Return
    /\ UNCHANGED <<glfwVars, driverVars, deviceVars, swapVars, loopVars>>

vkDestroyFramebuffer ==
    /\ Running("vkDestroyFramebuffer")
    /\ DestroyEach("framebuffer", swapChainFramebuffers)

vkDestroyPipeline ==
    /\ Running("vkDestroyPipeline")
    /\ DestroyEach("pipeline", 1)

vkDestroyPipelineLayout ==
    /\ Running("vkDestroyPipelineLayout")
    /\ DestroyEach("pipelineLayout", 1)

vkDestroyRenderPass ==
    /\ Running("vkDestroyRenderPass")
    /\ DestroyEach("renderPass", 1)

vkDestroyImageView ==
    /\ Running("vkDestroyImageView")
    /\ DestroyEach("imageView", swapChainImageViews)

vkDestroySwapchainKHR ==
    /\ Running("vkDestroySwapchainKHR")
    /\ DestroyEach("swapchain", 1)

vkDestroyDevice ==
    /\ Running("vkDestroyDevice")
    /\ DestroyEach("device", 1)

\* if (enableValidationLayers), and then only if the entry point is found
DestroyDebugUtilsMessengerEXT ==
    /\ Running("DestroyDebugUtilsMessengerEXT")
    /\ DestroyEach("debugMessenger",
                   IF enableValidationLayers /\ DebugUtilsProcAddr THEN 1 ELSE 0)

vkDestroySurfaceKHR ==
    /\ Running("vkDestroySurfaceKHR")
    /\ DestroyEach("surface", 1)

vkDestroyInstance ==
    /\ Running("vkDestroyInstance")
    /\ DestroyEach("instance", 1)

glfwDestroyWindow ==
    /\ Running("glfwDestroyWindow")
    /\ log' = Append(log, Ev("destroy", "window", 1))
    /\ window' = FALSE
    /\ Return
    /\ UNCHANGED <<glfwInitialized, framebufferSize, driverVars, deviceVars, swapVars,
                   loopVars>>

glfwTerminate ==
    /\ Running("glfwTerminate")
    /\ log' = Append(log, Ev("destroy", "glfw", 1))
    /\ glfwInitialized' = FALSE
    /\ Return
    /\ UNCHANGED <<window, framebufferSize, driverVars, deviceVars, swapVars, loopVars>>

-----------------------------------------------------------------------------
(* main *)

\* the handler returns the success status
mainCatch_success ==
    /\ exitStatus = "running"
    /\ exception # "none"
    /\ exitStatus' = "EXIT_SUCCESS"
    /\ UNCHANGED <<pc, exception, log, glfwVars, driverVars, deviceVars, swapVars, loopVars>>

\* the handler releases the instance before it returns
mainCatch_release ==
    /\ exitStatus = "running"
    /\ exception # "none"
    /\ exitStatus' = "EXIT_FAILURE"
    /\ log' = log \o EvSeq("destroy", "instance", IF Alive("instance", 1) THEN 1 ELSE 0)
    /\ UNCHANGED <<pc, exception, glfwVars, driverVars, deviceVars, swapVars, loopVars>>

\* catch (const std::exception& e): print e.what(), return EXIT_FAILURE
mainCatch ==
    /\ exitStatus = "running"
    /\ exception # "none"
    /\ exitStatus' = "EXIT_FAILURE"
    /\ UNCHANGED <<pc, exception, log, glfwVars, driverVars, deviceVars, swapVars, loopVars>>

\* run() returned: return EXIT_SUCCESS
mainReturn ==
    /\ exitStatus = "running"
    /\ exception = "none"
    /\ pc = Len(Program) + 1
    /\ exitStatus' = "EXIT_SUCCESS"
    /\ UNCHANGED <<pc, exception, log, glfwVars, driverVars, deviceVars, swapVars, loopVars>>

-----------------------------------------------------------------------------
(* The whole program *)

LayerSets == {{}, {"VK_LAYER_KHRONOS_validation"}}

Init ==
    /\ pc = 1
    /\ exitStatus = "running"
    /\ exception = "none"
    /\ log = <<>>
    /\ enableValidationLayers \in BOOLEAN
    /\ availableLayers \in LayerSets
    /\ glfwInitialized = FALSE
    /\ window = FALSE
    /\ framebufferSize = Extent(WIDTH, HEIGHT)
    /\ devices \in SeqsUpTo(RunDeviceSet, MaxRunDevices)
    /\ physicalDevice = VK_NULL_HANDLE
    /\ indices = NoIndices
    /\ queueCreateInfos = <<>>
    /\ createInfo = NoCreateInfo
    /\ swapChainImages = 0
    /\ imagesValid = FALSE
    /\ swapChainImageViews = 0
    /\ swapChainFramebuffers = 0
    /\ commandBuffers = 0
    /\ windowShouldClose = FALSE
    /\ polls = 0

Next ==
    \/ initWindow
    \/ printExtensions
    \/ createInstance
    \/ setupDebugMessenger
    \/ createSurface
    \/ pickPhysicalDevice
    \/ createLogicalDevice
    \/ createSwapChain
    \/ createImageviews
    \/ createRenderPass
    \/ createGraphicsPipeline
    \/ createFramebuffers
    \/ createCommandPool
    \/ createCommandBuffers
    \/ mainLoop
    \/ vkDestroyCommandPool
    \/ vkDestroyFramebuffer
    \/ vkDestroyPipeline
    \/ vkDestroyPipelineLayout
    \/ vkDestroyRenderPass
    \/ vkDestroyImageView
    \/ vkDestroySwapchainKHR
    \/ vkDestroyDevice
    \/ DestroyDebugUtilsMessengerEXT
    \/ vkDestroySurfaceKHR
    \/ vkDestroyInstance
    \/ glfwDestroyWindow
    \/ glfwTerminate
    \/ mainCatch
    \/ mainReturn

Spec == Init /\ [][Next]_vars

\* main is one thread that keeps running until it returns or the process dies
FairSpec == Spec /\ WF_vars(Next)

-----------------------------------------------------------------------------
(* Device selection alone: pickPhysicalDevice run from the state a successful  *)
(* createSurface leaves (release build), for every enumeration within bounds   *)

PickPc == CHOOSE i \in DOMAIN Program : Program[i] = "pickPhysicalDevice"

AfterCreateSurface ==
    /\ pc = PickPc
    /\ exitStatus = "running"
    /\ exception = "none"
    /\ log = <<Ev("create", "glfw", 1), Ev("create", "window", 1),
               Ev("create", "instance", 1), Ev("create", "surface", 1)>>
    /\ enableValidationLayers = FALSE
    /\ availableLayers = {}
    /\ glfwInitialized = TRUE
    /\ window = TRUE
    /\ framebufferSize = Extent(WIDTH, HEIGHT)
    /\ physicalDevice = VK_NULL_HANDLE
    /\ indices = NoIndices
    /\ queueCreateInfos = <<>>
    /\ createInfo = NoCreateInfo
    /\ swapChainImages = 0
    /\ imagesValid = FALSE
    /\ swapChainImageViews = 0
    /\ swapChainFramebuffers = 0
    /\ commandBuffers = 0
    /\ windowShouldClose = FALSE
    /\ polls = 0

InitPick ==
    /\ AfterCreateSurface
    /\ devices \in SeqsUpTo(PickDeviceSet, MaxDevices)

NextPick ==
    \/ pickPhysicalDevice
    \/ mainCatch

SpecPick == InitPick /\ [][NextPick]_vars

-----------------------------------------------------------------------------
(* Queue family discovery alone: findQueueFamilies applied to a device with    *)
(* every list of queue families within bounds                                  *)

InitQF ==
    /\ AfterCreateSurface
    /\ devices \in {<<DeviceWith(q)>> : q \in SeqsUpTo(QueueFamilyKinds, MaxFamilies)}

callFindQueueFamilies ==
    /\ exitStatus = "running"
    /\ indices' = findQueueFamilies(devices[1])
    /\ exitStatus' = "returned"
    /\ UNCHANGED <<pc, exception, log, glfwVars, driverVars, physicalDevice,
                   queueCreateInfos, swapVars, loopVars>>

NextQF == callFindQueueFamilies

SpecQF == InitQF /\ [][NextQF]_vars

-----------------------------------------------------------------------------
(* Swapchain creation alone: createSwapChain run from the state a successful   *)
(* createLogicalDevice leaves (release build), for every device and            *)
(* framebuffer size within bounds                                              *)

SwapChainPc == CHOOSE i \in DOMAIN Program : Program[i] = "createSwapChain"

InitSwapChain ==
    /\ pc = SwapChainPc
    /\ exitStatus = "running"
    /\ exception = "none"
    /\ log = <<Ev("create", "glfw", 1), Ev("create", "window", 1),
               Ev("create", "instance", 1), Ev("create", "surface", 1),
               Ev("create", "device", 1)>>
    /\ enableValidationLayers = FALSE
    /\ availableLayers = {}
    /\ glfwInitialized = TRUE
    /\ window = TRUE
    /\ framebufferSize \in FramebufferSizes
    /\ devices \in {<<d>> : d \in SwapChainDeviceSet}
    /\ physicalDevice = pickLoop(devices, 1)
    /\ indices = findQueueFamilies(devices[physicalDevice])
    /\ queueCreateInfos = <<indices.graphicsFamily, indices.presentFamily>>
    /\ createInfo = NoCreateInfo
    /\ swapChainImages = 0
    /\ imagesValid = FALSE
    /\ swapChainImageViews = 0
    /\ swapChainFramebuffers = 0
    /\ commandBuffers = 0
    /\ windowShouldClose = FALSE
    /\ polls = 0

NextSwapChain ==
    \/ createSwapChain
    \/ mainCatch

SpecSwapChain == InitSwapChain /\ [][NextSwapChain]_vars

-----------------------------------------------------------------------------
(* Properties *)

Min(S) == CHOOSE x \in S : \A y \in S : x <= y
Max(S) == CHOOSE x \in S : \A y \in S : x >= y

CreatePos(res) == {i \in DOMAIN log : log[i].op = "create" /\ log[i].res = res}
DestroyPos(res) == {i \in DOMAIN log : log[i].op = "destroy" /\ log[i].res = res}
InLog(e) == \E i \in DOMAIN log : log[i] = e

\* the phase of run() a call belongs to: 1 open window, 2 build graphics context,
\* 3 event loop, 4 release (shader modules are destroyed while the context is built)
PhaseOf(e) ==
    IF e.res \in {"glfw", "window"} /\ e.op \in {"create", "fail"} THEN 1
    ELSE IF e.op \in {"poll", "shouldClose"} THEN 3
    ELSE IF e.op = "destroy" /\ e.res # "shaderModule" THEN 4
    ELSE 2

PhaseBegun(k) == \E i \in DOMAIN log : PhaseOf(log[i]) = k

\* the last call of the phase has been made and has returned
PhaseCompleted(k) ==
    CASE k = 1 -> InLog(Ev("create", "window", 1)) \/ InLog(Ev("fail", "window", 1))
      [] k = 2 -> commandBuffers >= 1 /\ InLog(Ev("record", "commandBuffer", commandBuffers))
      [] k = 3 -> InLog(Ev("shouldClose", "window", 1))
      [] k = 4 -> InLog(Ev("destroy", "glfw", 1))

\* C1: the calls of run() occur phase by phase in the order open window, build
\* graphics context, event loop, release: no call of an earlier phase follows a
\* call of a later one, a phase begins only once the previous phase has
\* completed, and run() has returned normally only when all four have completed.
C1_PhasesInOrder ==
    /\ \A i \in 1..(Len(log) - 1) : PhaseOf(log[i]) <= PhaseOf(log[i + 1])
    /\ \A k \in 2..4 : PhaseBegun(k) => PhaseCompleted(k - 1)
    /\ exitStatus = "EXIT_SUCCESS" => \A k \in 1..4 : PhaseCompleted(k)

\* a run that polled at least once and ended normally
C1_Witness == exitStatus = "EXIT_SUCCESS" /\ polls >= 1

DependencyOrder ==
    <<"window", "instance", "debugMessenger", "surface", "physicalDevice", "device",
      "swapchain", "imageView", "renderPass", "pipeline", "framebuffer", "commandPool",
      "commandBuffer">>

Exists(res) ==
    IF res = "physicalDevice" THEN physicalDevice # VK_NULL_HANDLE
    ELSE CreatePos(res) # {}

\* C2: a resource has been created only if every resource earlier in the
\* dependency order has been created, or is the debug messenger and validation
\* is disabled.
C2_CreatedInDependencyOrder ==
    \A i, j \in DOMAIN DependencyOrder :
        (i < j /\ Exists(DependencyOrder[j]))
            => \/ Exists(DependencyOrder[i])
               \/ DependencyOrder[i] = "debugMessenger" /\ ~enableValidationLayers

CleanupResources ==
    {"commandPool", "framebuffer", "pipeline", "pipelineLayout", "renderPass",
     "imageView", "swapchain", "device", "debugMessenger", "surface", "instance",
     "window", "glfw"}

CreatedBefore(a, b) ==
    LET A == CreatePos(a)
        B == CreatePos(b)
    IN /\ A # {}
       /\ B # {}
       /\ \A i \in A, j \in B : i < j

DestroyedBefore(b, a) ==
    LET B == DestroyPos(b)
        A == DestroyPos(a)
    IN /\ B # {}
       /\ \A i \in B, j \in A : i < j

\* once a is destroyed, b, which was created after a, has been destroyed before it
ReverseOfCreation(a, b) ==
    (DestroyPos(a) # {} /\ CreatedBefore(a, b)) => DestroyedBefore(b, a)

\* C3 as stated: every two resources cleanup() destroys are destroyed in the
\* reverse of the order they were created in.
C3_StrictReverseOrder ==
    \A a \in CleanupResources :
        DestroyPos(a) # {} => \A b \in CleanupResources : ReverseOfCreation(a, b)

\* C3 amended: every two resources cleanup() destroys are destroyed in the reverse
\* of the order they were created in, except the debug messenger and the surface:
\* the messenger, created before the surface, is also destroyed before it.
C3_ReverseOrderExceptMessenger ==
    /\ \A a \in CleanupResources :
          DestroyPos(a) # {} =>
              \A b \in CleanupResources :
                  <<a, b>> # <<"debugMessenger", "surface">> => ReverseOfCreation(a, b)
    /\ (DestroyPos("surface") # {} /\ CreatePos("debugMessenger") # {})
          => /\ CreatedBefore("debugMessenger", "surface")
             /\ DestroyedBefore("debugMessenger", "surface")

\* a debug build that ran to the end of cleanup
C3_Witness ==
    /\ exitStatus = "EXIT_SUCCESS"
    /\ Destroyed("debugMessenger", 1)
    /\ swapChainImages >= 2

AnyAlive(res) == \E i \in CreatePos(res) : ~Destroyed(res, log[i].id)

\* <<r, d>>: r must not outlive d
Outlives ==
    {<<r, "device">> : r \in {"swapchain", "imageView", "renderPass", "pipelineLayout",
                               "pipeline", "framebuffer", "commandPool"}}
    \cup {<<"device", "instance">>, <<"debugMessenger", "instance">>,
          <<"surface", "instance">>, <<"swapchain", "surface">>}

\* C4: in every state, teardown included, a resource is alive only while what it
\* depends on is alive: what was created from the logical device only while the
\* device is, the device, the debug messenger and the surface only while the
\* instance is, the swapchain only while the surface is.
C4_NothingOutlivesItsParent ==
    \A p \in Outlives : AnyAlive(p[1]) => AnyAlive(p[2])

\* in teardown: the device is gone, the surface and the instance are still there
C4_Witness ==
    /\ Destroyed("device", 1)
    /\ Destroyed("swapchain", 1)
    /\ Alive("surface", 1)
    /\ Alive("instance", 1)

\* C5: when run() has returned normally every handle that was created has been
\* destroyed exactly once, after its creation, nothing was destroyed that was not
\* created, and the window and the windowing library have been released.
C5_AllReleasedOnce ==
    exitStatus = "EXIT_SUCCESS" =>
        /\ \A i \in DOMAIN log :
              log[i].op = "create" =>
                  /\ Cardinality({j \in DOMAIN log :
                                    log[j] = Ev("destroy", log[i].res, log[i].id)}) = 1
                  /\ \E j \in DOMAIN log :
                        j > i /\ log[j] = Ev("destroy", log[i].res, log[i].id)
        /\ \A j \in DOMAIN log :
              log[j].op = "destroy" => Created(log[j].res, log[j].id)
        /\ Destroyed("window", 1) /\ ~window
        /\ Destroyed("glfw", 1) /\ ~glfwInitialized

\* a debug build with two swapchain images that ended normally
C5_Witness ==
    /\ exitStatus = "EXIT_SUCCESS"
    /\ Created("debugMessenger", 1)
    /\ Created("shaderModule", 1)
    /\ Created("commandBuffer", 2)
    /\ Created("imageView", 2)

InitVulkanSteps == {initVulkan[i] : i \in DOMAIN initVulkan}

C6_State ==
    /\ exception # "none" =>
          /\ exitStatus \in {"running", "EXIT_FAILURE"}
          /\ pc \in DOMAIN Program /\ Program[pc] \in InitVulkanSteps
          /\ ~PhaseBegun(3)
          /\ ~PhaseBegun(4)
    /\ exitStatus = "EXIT_FAILURE" => exception # "none"
    /\ exitStatus = "EXIT_SUCCESS" =>
          exception = "none" /\ \A k \in 1..4 : PhaseCompleted(k)

\* the only step left after a fatal error is main's return of the failure status
C6_Step ==
    exception # "none" =>
        /\ log' = log
        /\ pc' = pc
        /\ exception' = exception
        /\ exitStatus' = "EXIT_FAILURE"

\* C6: once an initialization step has raised its fatal error no further call is
\* made (no later step, no retry, no event loop, no cleanup) and the process can
\* only end with the failure status; it ends with the failure status only after a
\* fatal error and with the success status only when all four phases completed.
C6_FirstFailureAborts == []C6_State /\ [][C6_Step]_vars

\* swapchain creation failed and the process has ended
C6_Witness ==
    /\ exitStatus = "EXIT_FAILURE"
    /\ exception = "failed to create swap chain!"
    /\ Alive("device", 1)

\* C7: a fallible call that reports failure is the last call made, and a fatal
\* error is raised for it.
C7_EveryFailureIsFatal ==
    \A i \in DOMAIN log :
        log[i].op = "fail" => i = Len(log) /\ exception # "none"

\* C8 as stated: when the process has ended after a fatal error, nothing that was
\* created has been destroyed.
C8_NothingDestroyedOnFailure ==
    exitStatus = "EXIT_FAILURE" => \A i \in DOMAIN log : log[i].op # "destroy"

\* C8 amended: after a fatal error no destroy call of cleanup() is made, so every
\* resource created before the failing step is still alive, except the two
\* shader modules once the pipeline exists (createGraphicsPipeline destroys
\* them itself).
C8_LeakExceptShaderModules ==
    exception # "none" =>
        /\ ~PhaseBegun(4)
        /\ \A i \in DOMAIN log :
              (log[i].op = "create" /\ log[i].res # "shaderModule")
                  => Alive(log[i].res, log[i].id)
        /\ \A id \in {1, 2} :
              Created("shaderModule", id)
                  => (Alive("shaderModule", id) <=> ~Created("pipeline", 1))

\* pipeline layout creation failed: both shader modules and everything before
\* them are leaked
C8_Witness ==
    /\ exitStatus = "EXIT_FAILURE"
    /\ exception = "failed to create pipeline layout!"
    /\ Alive("shaderModule", 1)
    /\ Alive("shaderModule", 2)
    /\ Alive("swapchain", 1)

\* the three conditions of the specification, stated on the driver's report
Qualifies(device) ==
    /\ \E i \in DOMAIN device.queueFamilies : device.queueFamilies[i].graphics
    /\ \E i \in DOMAIN device.queueFamilies : device.queueFamilies[i].present
    /\ deviceExtensions \subseteq device.extensions
    /\ Len(device.formats) >= 1
    /\ Len(device.presentModes) >= 1

Qualifying == {k \in DOMAIN devices : Qualifies(devices[k])}

PickReturned == exitStatus # "crashed" /\ (pc # PickPc \/ exception # "none")

\* C9: when pickPhysicalDevice has ended (the enumeration having been delivered),
\* physicalDevice is the first enumerated device that qualifies and no error was
\* raised, if some device qualifies; otherwise physicalDevice is null and the
\* fatal error for an empty enumeration, or for no suitable device, was raised.
C9_FirstQualifyingDevice ==
    PickReturned =>
        IF Qualifying # {}
        THEN /\ physicalDevice = Min(Qualifying)
             /\ exception = "none"
             /\ pc = PickPc + 1
        ELSE /\ physicalDevice = VK_NULL_HANDLE
             /\ pc = PickPc
             /\ exception = (IF devices = <<>>
                             THEN "failed to find GPUs with Vulkan support!"
                             ELSE "failed to find a suitable GPU!")

\* the first device has no present mode and is passed over for the second
C9_Witness ==
    /\ PickReturned
    /\ Len(devices) = 2
    /\ devices[1].presentModes = <<>>
    /\ Qualifies([devices[1] EXCEPT !.presentModes = <<"FIFO">>])
    /\ physicalDevice = 2

GraphicsFamilies(queueFamilies) ==
    {i \in 0..(Len(queueFamilies) - 1) : queueFamilies[i + 1].graphics}
PresentFamilies(queueFamilies) ==
    {i \in 0..(Len(queueFamilies) - 1) : queueFamilies[i + 1].present}
LowestOrEmpty(S) == IF S = {} THEN nullopt ELSE Min(S)

\* C10: findQueueFamilies returns as graphics family the lowest index with
\* graphics capability and as present family the lowest index with present
\* support, each empty exactly when no family has the capability, and has
\* scanned no further than the family at which both were found.
C10_LowestIndexOfEach ==
    exitStatus = "returned" =>
        LET queueFamilies == devices[1].queueFamilies
            G == GraphicsFamilies(queueFamilies)
            P == PresentFamilies(queueFamilies)
        IN /\ indices.graphicsFamily = LowestOrEmpty(G)
           /\ indices.presentFamily = LowestOrEmpty(P)
           /\ indices.scanned = (IF G # {} /\ P # {}
                                 THEN Max({Min(G), Min(P)}) + 1
                                 ELSE Len(queueFamilies))

SharedFamilies(queueFamilies) ==
    GraphicsFamilies(queueFamilies) \cap PresentFamilies(queueFamilies)

\* C11: whenever some queue family supports both graphics and present,
\* findQueueFamilies returns the index of such a family as graphics family and
\* as present family.
C11_SharedFamilyForBoth ==
    exitStatus = "returned" =>
        LET Shared == SharedFamilies(devices[1].queueFamilies)
        IN Shared # {} =>
            /\ indices.graphicsFamily = indices.presentFamily
            /\ indices.graphicsFamily \in Shared

Clamp(v, lo, hi) == IF v < lo THEN lo ELSE IF v > hi THEN hi ELSE v

SwapChainRequested == createInfo # NoCreateInfo

\* C12: the image count createSwapChain asks for is minImageCount + 1 brought into
\* [minImageCount, maxImageCount], without upper limit when maxImageCount is 0:
\* it is never below minImageCount and never above a maxImageCount that is not 0.
C12_ImageCountClamped ==
    SwapChainRequested =>
        LET capabilities == devices[physicalDevice].capabilities
            lo == capabilities.minImageCount
            hi == IF capabilities.maxImageCount = 0 THEN UINT32_MAX
                  ELSE capabilities.maxImageCount
        IN /\ createInfo.minImageCount = Clamp(ToUint32(lo + 1), lo, hi)
           /\ createInfo.minImageCount >= lo
           /\ createInfo.minImageCount <= hi

PreferredFormat ==
    [format |-> VK_FORMAT_B8G8R8A8_SRGB, colorSpace |-> VK_COLOR_SPACE_SRGB_NONLINEAR_KHR]

Chosen == [format |-> createInfo.imageFormat, colorSpace |-> createInfo.imageColorSpace]

\* C14: of a non-empty list of surface formats the one chosen is the pair of
\* BGRA8-sRGB and sRGB-nonlinear when the list holds it at any position, and the
\* first of the list otherwise; the choice is a function of the list.
C14_PreferredElseFirst ==
    SwapChainRequested =>
        LET availableFormats == devices[physicalDevice].formats
        IN /\ availableFormats # <<>>
           /\ Chosen = (IF \E i \in DOMAIN availableFormats :
                                availableFormats[i] = PreferredFormat
                        THEN PreferredFormat
                        ELSE availableFormats[1])

\* the preferred pair is the second of two formats and is the one chosen
C14_Witness ==
    /\ SwapChainRequested
    /\ Len(devices[physicalDevice].formats) = 2
    /\ devices[physicalDevice].formats[1].format = VK_FORMAT_B8G8R8A8_SRGB
    /\ devices[physicalDevice].formats[1].colorSpace # VK_COLOR_SPACE_SRGB_NONLINEAR_KHR
    /\ devices[physicalDevice].formats[2] = PreferredFormat
    /\ Chosen = PreferredFormat
    /\ InLog(Ev("create", "swapchain", 1))

PcOf(step) == CHOOSE i \in DOMAIN Program : Program[i] = step

LayerMissing ==
    enableValidationLayers /\ \E layerName \in validationLayers : layerName \notin availableLayers

\* C15: with validation enabled and a requested layer not installed, createInstance
\* throws before any call that makes or uses an instance, a surface, a physical
\* device or a logical device; run() never gets past createInstance and main never
\* returns success, it returns the failure status after the layer check failed.
\* The layer check succeeds exactly when every requested layer is installed.
C15_MissingLayerAbortsInstanceCreation ==
    /\ checkValidationLayerSupport <=> validationLayers \subseteq availableLayers
    /\ LayerMissing =>
        /\ \A i \in DOMAIN log : log[i].res \in {"glfw", "window", "validationLayers"}
        /\ physicalDevice = VK_NULL_HANDLE
        /\ pc <= PcOf("createInstance")
        /\ pc = PcOf("createInstance") =>
            /\ exitStatus \in {"running", "EXIT_FAILURE"}
            /\ exception \in {"none", "validation layers requested, but not available!"}
        /\ exitStatus = "EXIT_FAILURE" => InLog(Ev("fail", "validationLayers", 1))
        /\ exitStatus # "EXIT_SUCCESS"

\* the window is open, the layer is missing, main has returned the failure status
C15_Witness ==
    /\ LayerMissing
    /\ InLog(Ev("create", "window", 1))
    /\ exception = "validation layers requested, but not available!"
    /\ exitStatus = "EXIT_FAILURE"

ShaderFileMissing(id) == InLog(Ev("fail", "shaderFile", id))

\* C16: when one of the two shader files cannot be opened, createGraphicsPipeline
\* throws "failed to open file!" and in that run no shader module, no pipeline
\* layout and no pipeline is ever created, whichever file it is.
C16_NoPipelineObjectWithoutShaders ==
    \A id \in {1, 2} :
        ShaderFileMissing(id) =>
            /\ \A i \in DOMAIN log :
                    log[i].op = "create" =>
                        log[i].res \notin {"shaderModule", "pipelineLayout", "pipeline"}
            /\ exception = "failed to open file!"
            /\ pc = PcOf("createGraphicsPipeline")
            /\ exitStatus \in {"running", "EXIT_FAILURE"}

\* the first file was read, the second is missing, main has returned the failure status
C16_Witness ==
    /\ InLog(Ev("read", "shaderFile", 1))
    /\ ShaderFileMissing(2)
    /\ exitStatus = "EXIT_FAILURE"

TeardownStarted == \E i \in DOMAIN log : PhaseOf(log[i]) = 4
CloseObserved == InLog(Ev("shouldClose", "window", 1))
CallsKnown == {"create", "destroy", "fail", "read", "get", "record", "poll", "shouldClose"}

C17_State ==
    /\ TeardownStarted => CloseObserved
    /\ CloseObserved => windowShouldClose
    /\ pc > PcOf("mainLoop") => CloseObserved
    /\ \A i \in DOMAIN log : log[i].op \in CallsKnown
    /\ \A i \in DOMAIN log :
            log[i].op = "poll" =>
                /\ i < Len(log) => log[i + 1].op \in {"poll", "shouldClose"}
                /\ log[i].res = "window"

\* C17: the loop is left only when the close flag is seen set: teardown starts
\* only after that, between the first poll and leaving the loop nothing but
\* polls happen, nothing is ever submitted or presented, and once the close flag
\* is set main eventually returns the success status.
C17_LoopLeftOnlyOnClose ==
    /\ []C17_State
    /\ (windowShouldClose ~> exitStatus = "EXIT_SUCCESS")

\* the flag was clear after the first poll, set later, and main returned success
C17_Witness ==
    /\ polls >= 2
    /\ windowShouldClose
    /\ CloseObserved
    /\ exitStatus = "EXIT_SUCCESS"

\* C18: createLogicalDevice passes one queue-creation entry per distinct value
\* among the graphics and present family indices: one entry when they are the
\* same, two when they differ, no family twice.
C18_OneEntryPerDistinctFamily ==
    queueCreateInfos # <<>> =>
        LET families == {indices.graphicsFamily, indices.presentFamily}
        IN /\ Len(queueCreateInfos) = Cardinality(families)
           /\ {queueCreateInfos[i] : i \in DOMAIN queueCreateInfos} = families

AfterSelection == {"createLogicalDevice", "createSwapChain", "createCommandPool"}

\* C19: createLogicalDevice, createSwapChain and createCommandPool are entered
\* only with a selected device whose queue family discovery returns both indices,
\* createSwapChain only with one that has a surface format; no absent index is
\* ever read and none of the three steps ends the process abnormally.
C19_PreconditionsMet ==
    /\ (pc \in DOMAIN Program /\ Program[pc] \in AfterSelection) =>
        /\ physicalDevice # VK_NULL_HANDLE
        /\ isComplete(findQueueFamilies(devices[physicalDevice]))
        /\ devices[physicalDevice].formats # <<>>
        /\ exitStatus # "crashed"
    /\ exception # "bad optional access"

\* the first device has no family that presents or no surface format and is
\* passed over; the swapchain of the second one was asked for
C19_Witness ==
    /\ Len(devices) = 2
    /\ ~isComplete(findQueueFamilies(devices[1])) \/ devices[1].formats = <<>>
    /\ physicalDevice = 2
    /\ SwapChainRequested
    /\ InLog(Ev("create", "commandPool", 1))

====
